---- MODULE Spec2Model ----
(***************************************************************************)
(* A model of main.py, the interactive SQL generator: the console driver   *)
(* (__main__), the menu loop (get_user_selection), the tabular reader      *)
(* dispatch (read_input_file), the INSERT and UPDATE renderers and the     *)
(* output writer.                                                          *)
(*                                                                         *)
(* Text is a sequence of one-character strings, so that str.strip,         *)
(* str.lower, str.split, str.join, int(), os.path.splitext and             *)
(* os.path.basename are computed character by character as Python          *)
(* computes them.                                                          *)
(***************************************************************************)
EXTENDS Integers, Sequences, FiniteSets, TLC

VARIABLES
    pc,           \* the driver's position: the input() call it blocks on, or its end
    operation,    \* main.py:143, the option get_user_selection returned
    table_name,   \* main.py:145
    view_name,    \* main.py:218 / 230
    file_path,    \* main.py:161
    df,           \* main.py:164, the table read_input_file returned
    columns,      \* main.py:190, the dict of create_table, in insertion order
    sql_query,    \* the statement text of the run
    output_file,  \* main.py:175
    fs,           \* the file system: whether ./storage exists, and the files in it
    fs0,          \* the file system as the run found it
    stdout,       \* the last thing the run printed after a prompt was answered
    error,        \* the exception that ended the run, if any
    lastInput,    \* the last line input() returned
    reads,        \* the number of calls of read_input_file
    writes        \* the number of calls of write_queries_to_file

vars == <<pc, operation, table_name, view_name, file_path, df, columns, sql_query,
          output_file, fs, fs0, stdout, error, lastInput, reads, writes>>

----------------------------------------------------------------------------
(* Bounds of the model. *)

\* the longest table the reader returns
MaxRows == 2

\* the longest cell text of the formatter's specification
MaxCellLen == 5

----------------------------------------------------------------------------
(* Python's str operations. *)

Whitespace == {" ", "\t", "\n"}

UpperCase == (* "ABCDEFGHIJKLMNOPQRSTUVWXYZ" *) <<"A","B","C","D","E","F","G","H","I","J","K","L","M","N","O","P","Q","R","S","T","U","V","W","X","Y","Z">>

LowerCase == (* "abcdefghijklmnopqrstuvwxyz" *) <<"a","b","c","d","e","f","g","h","i","j","k","l","m","n","o","p","q","r","s","t","u","v","w","x","y","z">>

Digits == (* "0123456789" *) <<"0","1","2","3","4","5","6","7","8","9">>

lower_char(c) ==
    IF \E i \in 1..Len(UpperCase) : UpperCase[i] = c
    THEN LowerCase[CHOOSE i \in 1..Len(UpperCase) : UpperCase[i] = c]
    ELSE c

\* str.lower
lower(s) == [i \in 1..Len(s) |-> lower_char(s[i])]

RECURSIVE lstrip(_)
lstrip(s) ==
    IF s # <<>> /\ Head(s) \in Whitespace THEN lstrip(Tail(s)) ELSE s

RECURSIVE rstrip(_)
rstrip(s) ==
    IF s # <<>> /\ s[Len(s)] \in Whitespace
    THEN rstrip(SubSeq(s, 1, Len(s) - 1))
    ELSE s

\* str.strip
strip(s) == rstrip(lstrip(s))

\* sep.join(items)
RECURSIVE join(_, _)
join(sep, items) ==
    IF items = <<>> THEN <<>>
    ELSE IF Len(items) = 1 THEN items[1]
    ELSE items[1] \o sep \o join(sep, Tail(items))

\* s.split(c) for a one-character separator c
RECURSIVE split(_, _)
split(s, c) ==
    IF \A i \in 1..Len(s) : s[i] # c THEN <<s>>
    ELSE LET k == CHOOSE i \in 1..Len(s) :
                      s[i] = c /\ \A j \in 1..(i - 1) : s[j] # c
         IN  <<SubSeq(s, 1, k - 1)>> \o split(SubSeq(s, k + 1, Len(s)), c)

\* s.rfind(c), counted from 1; 0 when c is not in s
rfind(s, c) ==
    IF \A i \in 1..Len(s) : s[i] # c THEN 0
    ELSE CHOOSE i \in 1..Len(s) :
             s[i] = c /\ \A j \in (i + 1)..Len(s) : s[j] # c

RECURSIVE digits_of(_)
digits_of(n) ==
    IF n < 10 THEN <<Digits[n + 1]>>
    ELSE digits_of(n \div 10) \o <<Digits[(n % 10) + 1]>>

\* str(n) of an integer
str_int(n) == IF n < 0 THEN <<"-">> \o digits_of(0 - n) ELSE digits_of(n)

----------------------------------------------------------------------------
(* Cell values: what a row of the DataFrame holds. *)

NaN == [kind |-> "nan", text |-> <<>>, n |-> 0]

StrCell(s) == [kind |-> "str", text |-> s, n |-> 0]

IntCell(k) == [kind |-> "int", text |-> <<>>, n |-> k]

pd_notna(v) == v.kind # "nan"

\* str(v)
str(v) ==
    CASE v.kind = "str" -> v.text
      [] v.kind = "int" -> str_int(v.n)
      [] OTHER -> (* "nan" *) <<"n","a","n">>

\* The literals main.py:50 and :70 compare with.
NullWords == {(* "null" *) <<"n","u","l","l">>, <<>>, <<"-">>}

----------------------------------------------------------------------------
(* generate_insert_queries, main.py:33-56. *)

\* a faulty variant: insert_value with the strip left out
insert_value_unstripped(v) ==
    IF pd_notna(v) /\ lower(str(v)) \notin NullWords
    THEN <<"'">> \o str(v) \o <<"'">>
    ELSE (* "NULL" *) <<"N","U","L","L">>

\* main.py:50, the literal of one value
insert_value(v) ==
    IF pd_notna(v) /\ lower(strip(str(v))) \notin NullWords
    THEN <<"'">> \o str(v) \o <<"'">>
    ELSE (* "NULL" *) <<"N","U","L","L">>

\* main.py:50-51, the tuple of one row
insert_row(row) ==
    <<"(">> \o join((* ", " *) <<","," ">>, [i \in 1..Len(row) |-> insert_value(row[i])]) \o <<")">>

\* main.py:48-51, the loop that appends one tuple per row to values_list
RECURSIVE values_list(_)
values_list(rows) ==
    IF rows = <<>> THEN <<>>
    ELSE <<insert_row(Head(rows))>> \o values_list(Tail(rows))

\* a faulty variant: generate_insert_queries emitting one INSERT statement per row
generate_insert_per_row(d, name) ==
    join(<<" ">>, [r \in 1..Len(d.rows) |->
        (* "INSERT INTO " *) <<"I","N","S","E","R","T"," ","I","N","T","O"," ">> \o name \o (* " (" *) <<" ","(">> \o join((* ", " *) <<","," ">>, d.columns)
            \o (* ") VALUES " *) <<")"," ","V","A","L","U","E","S"," ">> \o insert_row(d.rows[r]) \o <<";">>])

generate_insert_queries(d, name) ==
    LET base_insert == (* "INSERT INTO " *) <<"I","N","S","E","R","T"," ","I","N","T","O"," ">> \o name \o (* " (" *) <<" ","(">>
                           \o join((* ", " *) <<","," ">>, d.columns) \o (* ") VALUES" *) <<")"," ","V","A","L","U","E","S">>
    IN  base_insert \o <<" ">> \o join((* ", " *) <<","," ">>, values_list(d.rows)) \o <<";">>

----------------------------------------------------------------------------
(* generate_update_queries, main.py:58-74. *)

\* row[col]: the row's value in the column of that name
row_get(d, row, col) ==
    row[CHOOSE i \in 1..Len(d.columns) : d.columns[i] = col]

\* a faulty variant: set_includes with the strip left out
set_includes_unstripped(v) ==
    pd_notna(v) /\ lower(str(v)) \notin NullWords

\* main.py:70, the filter of the generator expression
set_includes(v) ==
    pd_notna(v) /\ lower(strip(str(v))) \notin NullWords

\* a faulty variant: set_columns with the filter left out
set_columns_all(d, row) == d.columns

\* main.py:70, the columns the generator expression yields for one row
set_columns(d, row) ==
    SelectSeq(d.columns, LAMBDA col : set_includes(row_get(d, row, col)))

\* main.py:70
set_clause(d, row) ==
    LET cols == set_columns(d, row)
    IN  join((* ", " *) <<","," ">>, [i \in 1..Len(cols) |->
            cols[i] \o (* " = '" *) <<" ","="," ","'">> \o str(row_get(d, row, cols[i])) \o <<"'">>])

\* a faulty variant: update_query with the condition stripped
update_query_stripped(d, row, name, condition) ==
    (* "UPDATE " *) <<"U","P","D","A","T","E"," ">> \o name \o (* " SET " *) <<" ","S","E","T"," ">> \o set_clause(d, row)
        \o (* " WHERE " *) <<" ","W","H","E","R","E"," ">> \o strip(condition) \o <<";">>

\* main.py:71
update_query(d, row, name, condition) ==
    (* "UPDATE " *) <<"U","P","D","A","T","E"," ">> \o name \o (* " SET " *) <<" ","S","E","T"," ">> \o set_clause(d, row)
        \o (* " WHERE " *) <<" ","W","H","E","R","E"," ">> \o condition \o <<";">>

\* main.py:69-72, the loop that appends one statement per row to queries
RECURSIVE queries(_, _, _, _)
queries(d, rows, name, condition) ==
    IF rows = <<>> THEN <<>>
    ELSE <<update_query(d, Head(rows), name, condition)>>
             \o queries(d, Tail(rows), name, condition)

generate_update_queries(d, name, condition) ==
    join(<<"\n">>, queries(d, d.rows, name, condition))

----------------------------------------------------------------------------
(* int(text), main.py:123. *)

digit_val(c) == (CHOOSE i \in 1..Len(Digits) : Digits[i] = c) - 1

RECURSIVE int_of_digits(_)
int_of_digits(ds) ==
    IF ds = <<>> THEN 0
    ELSE 10 * int_of_digits(SubSeq(ds, 1, Len(ds) - 1)) + digit_val(ds[Len(ds)])

\* int(s): surrounding whitespace is dropped, one sign is allowed, and the rest
\* is one or more decimal digits; anything else raises ValueError (ok = FALSE).
int_parse(s) ==
    LET t    == strip(s)
        neg  == t # <<>> /\ t[1] = "-"
        body == IF t # <<>> /\ t[1] \in {"+", "-"} THEN Tail(t) ELSE t
        ok   == body # <<>> /\ \A i \in 1..Len(body) :
                                   \E k \in 1..Len(Digits) : Digits[k] = body[i]
    IN  [ok  |-> ok,
         val |-> IF ok THEN (IF neg THEN 0 - int_of_digits(body)
                                    ELSE int_of_digits(body))
                       ELSE 0]

----------------------------------------------------------------------------
(* os.path, as main.py uses it. *)

\* the working directory of the run
Cwd == (* "/w" *) <<"/","w">>

\* os.path.realpath of a path with no symbolic link, "." or ".." component
realpath(p) ==
    IF p = <<>> THEN Cwd
    ELSE IF p[1] = "/" THEN p
    ELSE Cwd \o <<"/">> \o p

\* os.path.basename
basename(p) == SubSeq(p, rfind(p, "/") + 1, Len(p))

\* os.path.splitext: the extension starts at the last dot of the last
\* component, unless only dots precede it there
splitext(p) ==
    LET sepIndex == rfind(p, "/")
        dotIndex == rfind(p, ".")
    IN  IF /\ dotIndex > sepIndex
           /\ \E i \in (sepIndex + 1)..(dotIndex - 1) : p[i] # "."
        THEN <<SubSeq(p, 1, dotIndex - 1), SubSeq(p, dotIndex, Len(p))>>
        ELSE <<p, <<>>>>

\* os.path.join of two components
path_join(a, b) ==
    IF b # <<>> /\ b[1] = "/" THEN b
    ELSE IF a = <<>> \/ a[Len(a)] = "/" THEN a \o b
    ELSE a \o <<"/">> \o b

----------------------------------------------------------------------------
(* read_input_file, main.py:14-31. *)

\* main.py:21
file_extension(p) == lower(splitext(p)[2])

\* a faulty variant: supported with .txt taken as well
supported_with_txt(ext) == ext \in {(* ".csv" *) <<".","c","s","v">>, (* ".xls" *) <<".","x","l","s">>, (* ".xlsx" *) <<".","x","l","s","x">>, (* ".txt" *) <<".","t","x","t">>}

\* main.py:24 and :26, the extensions a reader is chosen for
supported(ext) == ext \in {(* ".csv" *) <<".","c","s","v">>, (* ".xls" *) <<".","x","l","s">>, (* ".xlsx" *) <<".","x","l","s","x">>}

----------------------------------------------------------------------------
(* get_output_file_name, main.py:99-107, and write_queries_to_file, :76-97. *)

\* a faulty variant: get_output_file_name with the extension kept
get_output_file_name_ext(input_file) == basename(input_file) \o (* ".sql" *) <<".","s","q","l">>

get_output_file_name(input_file) ==
    splitext(basename(input_file))[1] \o (* ".sql" *) <<".","s","q","l">>

\* main.py:84
directory == (* "./storage" *) <<".","/","s","t","o","r","a","g","e">>

\* main.py:91
output_path(out) == path_join(directory, out)

\* main.py:87-95: the directory is made when absent, and the file is opened
\* for writing, which replaces a file of that path
written(f, query, out) ==
    [dirs  |-> f.dirs \cup {directory},
     files |-> {e \in f.files : e.path # output_path(out)}
                  \cup {[path |-> output_path(out), content |-> query \o (* "\n\n" *) <<"\n","\n">>]}]

----------------------------------------------------------------------------
(* The console driver, main.py:131-237. *)

\* main.py:136-140
operations == <<"select", "insert", "update", "delete", "create_table",
                "drop_table", "alter_table", "create_view", "drop_view">>

\* seq[i] of a Python list: a negative index counts from the end
py_index(seq, i) == IF i < 0 THEN seq[Len(seq) + i + 1] ELSE seq[i + 1]

\* a faulty variant: choice_in_range with the lower end off by one
choice_in_range_from_zero(choice, n) == 0 <= choice /\ choice <= n

\* main.py:124
choice_in_range(choice, n) == 1 <= choice /\ choice <= n

\* a faulty variant: name_given with the strip left out
name_given_raw(x) == x # <<>>

\* main.py:145-146 and :218-219, :230-231: a name is taken when its stripped
\* form is not empty
name_given(x) == strip(x) # <<>>

\* a faulty variant: reads_file with delete sent to the file branch
reads_file_or_delete(op) == op \in {"insert", "update", "delete"}

\* main.py:160
reads_file(op) == op \in {"insert", "update"}

\* a variable that holds no text yet (no text is this: every text is made of
\* one-character strings)
None == <<"None">>

NoTable == [columns |-> <<>>, rows |-> <<>>]

Quiet == <<"", <<>>>>

(* What the user may type. *)

ChoiceInputs ==
    {<<"0">>, <<"1">>, <<"2">>, <<"3">>, <<"4">>, <<"5">>, <<"6">>, <<"7">>, <<"8">>, <<"9">>, (* "10" *) <<"1","0">>,
     (* "-1" *) <<"-","1">>, (* "+3" *) <<"+","3">>, (* " 2 " *) <<" ","2"," ">>, (* "2.5" *) <<"2",".","5">>, (* "abc" *) <<"a","b","c">>, <<>>, <<" ">>}

NameInputs == {<<>>, (* " \t" *) <<" ","\t">>, (* " tb " *) <<" ","t","b"," ">>}

ViewInputs == {<<>>, (* "  " *) <<" "," ">>, (* " v " *) <<" ","v"," ">>}

PathInputs ==
    {(* "/d/a.csv" *) <<"/","d","/","a",".","c","s","v">>, (* "b.XLSX" *) <<"b",".","X","L","S","X">>, (* "/d.v/c.1.xls" *) <<"/","d",".","v","/","c",".","1",".","x","l","s">>, (* "/d/a.txt" *) <<"/","d","/","a",".","t","x","t">>, (* "/d.csv/e" *) <<"/","d",".","c","s","v","/","e">>,
     (* "/d/.csv" *) <<"/","d","/",".","c","s","v">>, (* "a.csv.bak" *) <<"a",".","c","s","v",".","b","a","k">>, <<>>}

ConditionInputs == {(* "id = 1" *) <<"i","d"," ","="," ","1">>, (* " x " *) <<" ","x"," ">>}

ColumnLists == {<<(* "id" *) <<"i","d">>>>, <<(* "id" *) <<"i","d">>, (* "name" *) <<"n","a","m","e">>>>}

Cells == {NaN, StrCell(<<"-">>), StrCell((* " Null " *) <<" ","N","u","l","l"," ">>), StrCell((* " a " *) <<" ","a"," ">>)}

RowsOf(cols) ==
    UNION {[1..n -> [1..Len(cols) -> Cells]] : n \in 0..MaxRows}

\* the tables the reader may return
Tables ==
    UNION {{[columns |-> cols, rows |-> rows] : rows \in RowsOf(cols)} :
               cols \in ColumnLists}

FileSystems ==
    {[dirs |-> {}, files |-> {}],
     [dirs |-> {directory},
      files |-> {[path |-> (* "./storage/a.sql" *) <<".","/","s","t","o","r","a","g","e","/","a",".","s","q","l">>, content |-> (* "old" *) <<"o","l","d">>]}]}

Init ==
    /\ pc = "choice"
    /\ operation = ""
    /\ table_name = None
    /\ view_name = None
    /\ file_path = None
    /\ df = NoTable
    /\ columns = <<>>
    /\ sql_query = None
    /\ output_file = None
    /\ fs \in FileSystems
    /\ fs0 = fs
    /\ stdout = Quiet
    /\ error = ""
    /\ lastInput = None
    /\ reads = 0
    /\ writes = 0

\* main.py:121-129, one turn of the loop of get_user_selection
get_user_selection(x) ==
    /\ pc = "choice"
    /\ lastInput' = x
    /\ LET choice == int_parse(x)
       IN  IF choice.ok
           THEN IF choice_in_range(choice.val, Len(operations))
                THEN /\ operation' = py_index(operations, choice.val - 1)
                     /\ pc' = "table_name"
                     /\ stdout' = Quiet
                ELSE /\ stdout' = <<"Please enter a number between 1 and 9.", <<>>>>
                     /\ UNCHANGED <<operation, pc>>
           ELSE /\ stdout' = <<"Invalid input, please enter a number.", <<>>>>
                /\ UNCHANGED <<operation, pc>>
    /\ UNCHANGED <<table_name, view_name, file_path, df, columns, sql_query,
                   output_file, fs, fs0, error, reads, writes>>

\* main.py:144-148, one turn of the table-name loop
enter_table_name(x) ==
    /\ pc = "table_name"
    /\ lastInput' = x
    /\ IF name_given(x)
       THEN /\ table_name' = strip(x)
            /\ pc' = "dispatch"
            /\ stdout' = Quiet
       ELSE /\ stdout' = <<"Table name cannot be empty. Please enter a valid table name.", <<>>>>
            /\ UNCHANGED <<table_name, pc>>
    /\ UNCHANGED <<operation, view_name, file_path, df, columns, sql_query,
                   output_file, fs, fs0, error, reads, writes>>

\* what the branches that only print leave alone
PrintOnly ==
    UNCHANGED <<operation, table_name, view_name, file_path, df, columns,
                output_file, fs, fs0, error, reads, writes>>

\* main.py:150-158
select_query(c, l, o, w) ==
    /\ pc = "dispatch" /\ operation = "select"
    /\ lastInput' = w
    /\ LET cols      == strip(c)
           limit     == IF strip(l) # <<>> THEN strip(l) ELSE (* "10" *) <<"1","0">>
           offset    == IF strip(o) # <<>> THEN strip(o) ELSE <<"0">>
           condition == strip(w)
       IN  sql_query' = (* "SELECT " *) <<"S","E","L","E","C","T"," ">> \o join((* ", " *) <<","," ">>, split(cols, ",")) \o (* " FROM " *) <<" ","F","R","O","M"," ">>
                            \o table_name \o (* " WHERE " *) <<" ","W","H","E","R","E"," ">> \o condition
                            \o (* " LIMIT " *) <<" ","L","I","M","I","T"," ">> \o limit \o (* " OFFSET " *) <<" ","O","F","F","S","E","T"," ">> \o offset \o <<";">>
    /\ stdout' = <<"Generated SQL Query:", sql_query'>>
    /\ pc' = "done"
    /\ PrintOnly

\* main.py:161-164: the path is read, and read_input_file raises ValueError,
\* or its reader fails, or it returns a table
enter_file_path(x) ==
    /\ pc = "dispatch" /\ reads_file(operation)
    /\ lastInput' = x
    /\ file_path' = realpath(x)
    /\ reads' = reads + 1
    /\ stdout' = Quiet
    /\ \/ /\ ~supported(file_extension(file_path'))
          /\ error' = "ValueError: Unsupported file format. Please provide a CSV or Excel file."
          /\ pc' = "failed"
          /\ df' = df
       \/ /\ supported(file_extension(file_path'))
          /\ error' = "the reader raised"
          /\ pc' = "failed"
          /\ df' = df
       \/ /\ supported(file_extension(file_path'))
          /\ df' \in Tables
          /\ pc' = "generate"
          /\ error' = error
    /\ UNCHANGED <<operation, table_name, view_name, columns, sql_query,
                   output_file, fs, fs0, writes>>

\* main.py:167-168 and :175
generate_insert ==
    /\ pc = "generate" /\ operation = "insert"
    /\ sql_query' = generate_insert_queries(df, table_name)
    /\ output_file' = get_output_file_name(file_path)
    /\ pc' = "write"
    /\ UNCHANGED <<operation, table_name, view_name, file_path, df, columns,
                   fs, fs0, stdout, error, lastInput, reads, writes>>

\* main.py:169-172 and :175
generate_update(x) ==
    /\ pc = "generate" /\ operation # "insert"
    /\ lastInput' = x
    /\ sql_query' = generate_update_queries(df, table_name, x)
    /\ output_file' = get_output_file_name(file_path)
    /\ pc' = "write"
    /\ UNCHANGED <<operation, table_name, view_name, file_path, df, columns,
                   fs, fs0, stdout, error, reads, writes>>

\* main.py:178-180
write_queries_to_file ==
    /\ pc = "write"
    /\ fs' = written(fs, sql_query, output_file)
    /\ writes' = writes + 1
    /\ stdout' = <<"SQL queries have been written to", output_file>>
    /\ pc' = "done"
    /\ UNCHANGED <<operation, table_name, view_name, file_path, df, columns,
                   sql_query, output_file, fs0, error, lastInput, reads>>

\* main.py:182-187
delete_query(w) ==
    /\ pc = "dispatch" /\ ~reads_file(operation) /\ operation = "delete"
    /\ lastInput' = w
    /\ sql_query' = (* "DELETE FROM " *) <<"D","E","L","E","T","E"," ","F","R","O","M"," ">> \o table_name \o (* " WHERE " *) <<" ","W","H","E","R","E"," ">> \o w \o <<";">>
    /\ stdout' = <<"Generated SQL Query:", sql_query'>>
    /\ pc' = "done"
    /\ PrintOnly

\* columns[col_name] = value, main.py:198: a new key goes last, a known key
\* keeps its place
dict_set(d, k, v) ==
    IF \E i \in 1..Len(d) : d[i].name = k
    THEN [i \in 1..Len(d) |-> IF d[i].name = k THEN [name |-> k, spec |-> v] ELSE d[i]]
    ELSE Append(d, [name |-> k, spec |-> v])

\* str(columns), main.py:201, for keys and values that hold no quote and no
\* backslash (the repr of such a string is the string in single quotes)
dict_repr(d) ==
    <<"{">> \o join((* ", " *) <<","," ">>, [i \in 1..Len(d) |->
                 <<"'">> \o d[i].name \o (* "': '" *) <<"'",":"," ","'">> \o d[i].spec \o <<"'">>]) \o <<"}">>

ColumnNameInputs == {(* "done" *) <<"d","o","n","e">>, (* "Done" *) <<"D","o","n","e">>, (* "id" *) <<"i","d">>, (* "nm" *) <<"n","m">>}

ColumnTypeInputs == {(* "INT" *) <<"I","N","T">>}

ColumnDefaultInputs == {<<>>, <<"0">>}

ColumnKeyInputs == {<<>>, (* "UNIQUE" *) <<"U","N","I","Q","U","E">>}

StatementInputs == {(* "ADD COLUMN age INT" *) <<"A","D","D"," ","C","O","L","U","M","N"," ","a","g","e"," ","I","N","T">>, (* "SELECT id FROM t" *) <<"S","E","L","E","C","T"," ","i","d"," ","F","R","O","M"," ","t">>}

SelectColumnInputs == {<<"*">>, (* " a,b " *) <<" ","a",",","b"," ">>, <<>>}

LimitInputs == {<<>>, (* " 5" *) <<" ","5">>}

OffsetInputs == {<<>>, <<"2">>}

WhereInputs == {<<>>, (* " id=10 " *) <<" ","i","d","=","1","0"," ">>}

\* main.py:191-198, one turn of the column loop that adds a column
create_table_column(n, t, d, k) ==
    /\ pc = "dispatch" /\ ~reads_file(operation) /\ operation = "create_table"
    /\ lower(n) # (* "done" *) <<"d","o","n","e">>
    /\ lastInput' = k
    /\ columns' = dict_set(columns, n,
           t \o <<" ">> \o k \o <<" ">> \o (IF d # <<>> THEN (* "DEFAULT " *) <<"D","E","F","A","U","L","T"," ">> \o d ELSE <<>>))
    /\ stdout' = Quiet
    /\ UNCHANGED <<pc, operation, table_name, view_name, file_path, df, sql_query,
                   output_file, fs, fs0, error, reads, writes>>

\* main.py:192-194 and :200-202, the turn that ends the column loop
create_table_query(n) ==
    /\ pc = "dispatch" /\ ~reads_file(operation) /\ operation = "create_table"
    /\ lower(n) = (* "done" *) <<"d","o","n","e">>
    /\ lastInput' = n
    /\ sql_query' = (* "CREATE TABLE " *) <<"C","R","E","A","T","E"," ","T","A","B","L","E"," ">> \o table_name \o (* " (" *) <<" ","(">>
                        \o dict_repr(columns) \o (* ");" *) <<")",";">>
    /\ stdout' = <<"Generated SQL Query:", sql_query'>>
    /\ pc' = "done"
    /\ PrintOnly

\* main.py:204-207
drop_table_query ==
    /\ pc = "dispatch" /\ ~reads_file(operation) /\ operation = "drop_table"
    /\ sql_query' = (* "DROP TABLE IF EXISTS " *) <<"D","R","O","P"," ","T","A","B","L","E"," ","I","F"," ","E","X","I","S","T","S"," ">> \o table_name \o <<";">>
    /\ stdout' = <<"Generated SQL Query:", sql_query'>>
    /\ pc' = "done"
    /\ lastInput' = lastInput
    /\ PrintOnly

\* main.py:209-214
alter_table_query(a) ==
    /\ pc = "dispatch" /\ ~reads_file(operation) /\ operation = "alter_table"
    /\ lastInput' = a
    /\ sql_query' = (* "ALTER TABLE " *) <<"A","L","T","E","R"," ","T","A","B","L","E"," ">> \o table_name \o <<" ">> \o a \o <<";">>
    /\ stdout' = <<"Generated SQL Query:", sql_query'>>
    /\ pc' = "done"
    /\ PrintOnly

\* main.py:217-221 and :229-233, one turn of the view-name loop
enter_view_name(x) ==
    /\ pc = "dispatch" /\ ~reads_file(operation)
    /\ operation \in {"create_view", "drop_view"}
    /\ lastInput' = x
    /\ IF name_given(x)
       THEN /\ view_name' = strip(x)
            /\ pc' = "view"
            /\ stdout' = Quiet
       ELSE /\ stdout' = <<"View name cannot be empty. Please enter a valid view name.", <<>>>>
            /\ UNCHANGED <<view_name, pc>>
    /\ UNCHANGED <<operation, table_name, file_path, df, columns, sql_query,
                   output_file, fs, fs0, error, reads, writes>>

\* main.py:222-226
create_view_query(s) ==
    /\ pc = "view" /\ operation = "create_view"
    /\ lastInput' = s
    /\ sql_query' = (* "CREATE VIEW " *) <<"C","R","E","A","T","E"," ","V","I","E","W"," ">> \o view_name \o (* " AS " *) <<" ","A","S"," ">> \o s \o <<";">>
    /\ stdout' = <<"Generated SQL Query:", sql_query'>>
    /\ pc' = "done"
    /\ PrintOnly

\* main.py:235-237
drop_view_query ==
    /\ pc = "view" /\ operation = "drop_view"
    /\ sql_query' = (* "DROP VIEW IF EXISTS " *) <<"D","R","O","P"," ","V","I","E","W"," ","I","F"," ","E","X","I","S","T","S"," ">> \o view_name \o <<";">>
    /\ stdout' = <<"Generated SQL Query:", sql_query'>>
    /\ pc' = "done"
    /\ lastInput' = lastInput
    /\ PrintOnly

Next ==
    \/ \E x \in ChoiceInputs : get_user_selection(x)
    \/ \E x \in NameInputs : enter_table_name(x)
    \/ \E c \in SelectColumnInputs, l \in LimitInputs, o \in OffsetInputs,
          w \in WhereInputs : select_query(c, l, o, w)
    \/ \E x \in PathInputs : enter_file_path(x)
    \/ generate_insert
    \/ \E x \in ConditionInputs : generate_update(x)
    \/ write_queries_to_file
    \/ \E w \in WhereInputs : delete_query(w)
    \/ \E n \in ColumnNameInputs, t \in ColumnTypeInputs,
          d \in ColumnDefaultInputs, k \in ColumnKeyInputs :
           create_table_column(n, t, d, k)
    \/ \E n \in ColumnNameInputs : create_table_query(n)
    \/ drop_table_query
    \/ \E a \in StatementInputs : alter_table_query(a)
    \/ \E x \in ViewInputs : enter_view_name(x)
    \/ \E s \in StatementInputs : create_view_query(s)
    \/ drop_view_query

Spec == Init /\ [][Next]_vars

----------------------------------------------------------------------------
(* The formatter on its own: generate_insert_queries on every table of one  *)
(* column and one row, the cell drawn from all short texts over an alphabet *)
(* that spells the null words, and from some integers.                      *)

CellAlphabet == {" ", "-", "n", "N", "u", "l", "'"}

CellTexts == UNION {[1..k -> CellAlphabet] : k \in 0..MaxCellLen}

FormatCells ==
    {NaN} \cup {StrCell(s) : s \in CellTexts}
          \cup {IntCell(k) : k \in {0 - 3, 0, 7, 12}}

InitFormat ==
    /\ pc = "generate"
    /\ operation = "insert"
    /\ table_name = <<"t">>
    /\ view_name = None
    /\ file_path = (* "/d/a.csv" *) <<"/","d","/","a",".","c","s","v">>
    /\ \E v \in FormatCells : df = [columns |-> <<(* "id" *) <<"i","d">>>>, rows |-> <<<<v>>>>]
    /\ columns = <<>>
    /\ sql_query = None
    /\ output_file = None
    /\ fs = [dirs |-> {}, files |-> {}]
    /\ fs0 = fs
    /\ stdout = Quiet
    /\ error = ""
    /\ lastInput = (* "/d/a.csv" *) <<"/","d","/","a",".","c","s","v">>
    /\ reads = 1
    /\ writes = 0

NextFormat ==
    \/ generate_insert
    \/ write_queries_to_file

SpecFormat == InitFormat /\ [][NextFormat]_vars

----------------------------------------------------------------------------
(* The vocabulary of the properties, stated apart from the operators above. *)

StartsWith(text, p) == Len(text) >= Len(p) /\ SubSeq(text, 1, Len(p)) = p

EndsWith(text, p) ==
    Len(text) >= Len(p) /\ SubSeq(text, Len(text) - Len(p) + 1, Len(text)) = p

\* the number of places of text where sub begins
CountOf(text, sub) ==
    Cardinality({i \in 1..Len(text) :
        i + Len(sub) - 1 <= Len(text) /\ SubSeq(text, i, i + Len(sub) - 1) = sub})

Contains(text, sub) == CountOf(text, sub) > 0

Blank(s) == \A i \in 1..Len(s) : s[i] \in Whitespace

\* s without the whitespace around it
Trimmed(s) ==
    IF Blank(s) THEN <<>>
    ELSE LET i == CHOOSE a \in 1..Len(s) :
                      s[a] \notin Whitespace /\ Blank(SubSeq(s, 1, a - 1))
             j == CHOOSE b \in 1..Len(s) :
                      s[b] \notin Whitespace /\ Blank(SubSeq(s, b + 1, Len(s)))
         IN  SubSeq(s, i, j)

\* the word null in any mix of cases
IsNullWord(w) ==
    /\ Len(w) = 4
    /\ w[1] \in {"n", "N"} /\ w[2] \in {"u", "U"}
    /\ w[3] \in {"l", "L"} /\ w[4] \in {"l", "L"}

\* a value of the Sentinel set: missing, or text that is blank, a dash or the
\* word null once the whitespace around it is dropped
Sentinel(v) ==
    \/ v.kind = "nan"
    \/ Blank(str(v))
    \/ Trimmed(str(v)) = <<"-">>
    \/ IsNullWord(Trimmed(str(v)))

\* the literal the contract gives a value
Literal(v) == IF Sentinel(v) THEN (* "NULL" *) <<"N","U","L","L">> ELSE <<"'">> \o str(v) \o <<"'">>

\* the lines of a text
Lines(text) == IF text = <<>> THEN <<>> ELSE split(text, "\n")

\* the statement has just been generated
Generated == pc = "write"

InsertRun == Generated /\ operation = "insert"

UpdateRun == Generated /\ operation = "update"

----------------------------------------------------------------------------
(* C1: in the INSERT statement of a table of one cell v, the literal is the *)
(* bare token NULL exactly when v is missing or its trimmed, lower-cased    *)
(* text is "", "null" or "-"; otherwise it is the text of v, untrimmed and  *)
(* in its own case, between single quotes, with nothing escaped.            *)
InsertLiteralContract ==
    (InsertRun /\ Len(df.columns) = 1 /\ Len(df.rows) = 1) =>
        LET v == df.rows[1][1]
        IN  /\ sql_query = (* "INSERT INTO " *) <<"I","N","S","E","R","T"," ","I","N","T","O"," ">> \o table_name \o (* " (" *) <<" ","(">> \o df.columns[1]
                               \o (* ") VALUES (" *) <<")"," ","V","A","L","U","E","S"," ","(">> \o Literal(v) \o (* ");" *) <<")",";">>
            /\ EndsWith(sql_query, (* "(NULL);" *) <<"(","N","U","L","L",")",";">>) <=> Sentinel(v)

\* a cell that is a null word only once trimmed and lower-cased was rendered
InsertLiteralWitness ==
    /\ InsertRun
    /\ df.rows = <<<<StrCell((* " Null" *) <<" ","N","u","l","l">>)>>>>
    /\ sql_query = (* "INSERT INTO t (id) VALUES (NULL);" *) <<"I","N","S","E","R","T"," ","I","N","T","O"," ","t"," ","(","i","d",")"," ","V","A","L","U","E","S"," ","(","N","U","L","L",")",";">>

----------------------------------------------------------------------------
(* C2: generate_insert_queries emits one INSERT statement, with one VALUES  *)
(* keyword and one semicolon, the last character, that holds one            *)
(* parenthesized tuple per row, in row order, each of one literal per       *)
(* column, in column order; with no row the text ends in "VALUES ;".        *)
InsertShape ==
    InsertRun =>
        LET tuple(r) == <<"(">> \o join((* ", " *) <<","," ">>, [c \in 1..Len(df.columns) |->
                                         Literal(df.rows[r][c])]) \o <<")">>
        IN  /\ sql_query = (* "INSERT INTO " *) <<"I","N","S","E","R","T"," ","I","N","T","O"," ">> \o table_name \o (* " (" *) <<" ","(">>
                               \o join((* ", " *) <<","," ">>, df.columns) \o (* ") VALUES " *) <<")"," ","V","A","L","U","E","S"," ">>
                               \o join((* ", " *) <<","," ">>, [r \in 1..Len(df.rows) |-> tuple(r)])
                               \o <<";">>
            /\ CountOf(sql_query, (* "INSERT INTO " *) <<"I","N","S","E","R","T"," ","I","N","T","O"," ">>) = 1
            /\ CountOf(sql_query, (* "VALUES" *) <<"V","A","L","U","E","S">>) = 1
            /\ CountOf(sql_query, <<";">>) = 1
            /\ EndsWith(sql_query, <<";">>)
            /\ CountOf(sql_query, <<"(">>) = 1 + Len(df.rows)
            /\ CountOf(sql_query, <<")">>) = 1 + Len(df.rows)
            /\ Len(df.rows) = 0 => EndsWith(sql_query, (* "VALUES ;" *) <<"V","A","L","U","E","S"," ",";">>)

\* a table of two rows and two columns, its rows different, was rendered
InsertShapeWitness ==
    /\ InsertRun
    /\ Len(df.rows) = 2 /\ Len(df.columns) = 2
    /\ df.rows[1] # df.rows[2]
    /\ df.rows[1][1] # df.rows[1][2]

----------------------------------------------------------------------------
(* C3: generate_update_queries gives one UPDATE statement per row, joined   *)
(* by newlines, and each one ends in WHERE, the condition exactly as it was *)
(* typed (the same for every row) and the semicolon.                        *)
UpdateShape ==
    UpdateRun =>
        LET lines == Lines(sql_query)
        IN  /\ Len(lines) = Len(df.rows)
            /\ CountOf(sql_query, (* "UPDATE " *) <<"U","P","D","A","T","E"," ">>) = Len(df.rows)
            /\ \A r \in 1..Len(lines) :
                   /\ StartsWith(lines[r], (* "UPDATE " *) <<"U","P","D","A","T","E"," ">> \o table_name \o (* " SET " *) <<" ","S","E","T"," ">>)
                   /\ EndsWith(lines[r], (* " WHERE " *) <<" ","W","H","E","R","E"," ">> \o lastInput \o <<";">>)

\* two rows were rendered under a condition that has whitespace around it
UpdateShapeWitness ==
    /\ UpdateRun
    /\ Len(df.rows) = 2
    /\ lastInput = (* " x " *) <<" ","x"," ">>
    /\ df.rows[1] # df.rows[2]

----------------------------------------------------------------------------
----------------------------------------------------------------------------
(* C5: get_user_selection turns away 0, an integer above the number of      *)
(* options, a negative integer and text that is no integer, printing a      *)
(* message and asking again; the first integer k from 1 to the number of    *)
(* options makes it return the k-th option; once it has returned it reads   *)
(* no more input and its result stands.                                     *)

\* the texts of ChoiceInputs that are integers, each with its value
IntegerTexts ==
    {<<<<"0">>, 0>>, <<<<"1">>, 1>>, <<<<"2">>, 2>>, <<<<"3">>, 3>>, <<<<"4">>, 4>>,
     <<<<"5">>, 5>>, <<<<"6">>, 6>>, <<<<"7">>, 7>>, <<<<"8">>, 8>>, <<<<"9">>, 9>>,
     <<(* "10" *) <<"1","0">>, 10>>, <<(* "-1" *) <<"-","1">>, 0 - 1>>, <<(* "+3" *) <<"+","3">>, 3>>, <<(* " 2 " *) <<" ","2"," ">>, 2>>}

IsInteger(x) == \E p \in IntegerTexts : p[1] = x

IntegerOf(x) == (CHOOSE p \in IntegerTexts : p[1] = x)[2]

MenuSelection ==
    /\ [][pc = "choice" =>
            LET x == lastInput'
            IN  IF IsInteger(x) /\ IntegerOf(x) \in 1..Len(operations)
                THEN /\ operation' = operations[IntegerOf(x)]
                     /\ pc' = "table_name"
                ELSE /\ pc' = "choice"
                     /\ operation' = operation
                     /\ stdout'[1] \in {"Please enter a number between 1 and 9.",
                                        "Invalid input, please enter a number."}
                     /\ stdout'[1] = "Invalid input, please enter a number."
                            <=> ~IsInteger(x)]_vars
    /\ [][pc # "choice" => (pc' # "choice" /\ operation' = operation)]_vars

\* the menu was answered with 9 and returned the ninth option
MenuSelectionWitness ==
    /\ pc = "table_name"
    /\ lastInput = <<"9">>
    /\ operation = "drop_view"

----------------------------------------------------------------------------
(* C6: an insert or update run given a path whose extension, in any case,   *)
(* is none of .csv, .xls and .xlsx ends with the unsupported-format         *)
(* ValueError, writes no file and makes no directory.                       *)

\* the same character, or the same letter in the other case
SameLetter(a, b) ==
    \/ a = b
    \/ \E k \in 1..Len(LowerCase) : {a, b} = {LowerCase[k], UpperCase[k]}

EndsWithAnyCase(text, e) ==
    /\ Len(text) >= Len(e)
    /\ \A i \in 1..Len(e) : SameLetter(text[Len(text) - Len(e) + i], e[i])

Extensions == {(* ".csv" *) <<".","c","s","v">>, (* ".xls" *) <<".","x","l","s">>, (* ".xlsx" *) <<".","x","l","s","x">>}

Unsupported(path) == \A e \in Extensions : ~EndsWithAnyCase(path, e)

UnsupportedFormatFails ==
    (operation \in {"insert", "update"} /\ file_path # None /\ Unsupported(file_path)) =>
        /\ pc = "failed"
        /\ error = "ValueError: Unsupported file format. Please provide a CSV or Excel file."
        /\ fs = fs0
        /\ writes = 0
        /\ df = NoTable /\ sql_query = None

\* a .txt path was given where ./storage did not exist
UnsupportedFormatWitness ==
    /\ pc = "failed"
    /\ operation = "insert"
    /\ file_path = (* "/d/a.txt" *) <<"/","d","/","a",".","t","x","t">>
    /\ fs.dirs = {}
    /\ reads = 1

----------------------------------------------------------------------------
(* C7: in a run of select, delete, create_table, drop_table, alter_table,   *)
(* create_view or drop_view the reader and the writer are never called, the *)
(* file system stays as it was, and the statement is printed.               *)

FreeForm ==
    {"select", "delete", "create_table", "drop_table", "alter_table",
     "create_view", "drop_view"}

FreeFormTouchesNoFile ==
    operation \in FreeForm =>
        /\ reads = 0 /\ writes = 0
        /\ fs = fs0
        /\ df = NoTable /\ file_path = None /\ output_file = None
        /\ pc # "failed"
        /\ pc = "done" => (sql_query # None /\ stdout = <<"Generated SQL Query:", sql_query>>)

\* a delete run ended with its statement printed
FreeFormWitness ==
    /\ pc = "done"
    /\ operation = "delete"
    /\ stdout = <<"Generated SQL Query:", (* "DELETE FROM tb WHERE  id=10 ;" *) <<"D","E","L","E","T","E"," ","F","R","O","M"," ","t","b"," ","W","H","E","R","E"," "," ","i","d","=","1","0"," ",";">>>>

----------------------------------------------------------------------------
(* C8: the writer is called at most once, only in an insert or update run   *)
(* after the file was read and the statement generated, and it writes one   *)
(* file: the input's base name with .sql for its extension, in ./storage.   *)

\* the last component of a path
FileName(path) == LET parts == split(path, "/") IN parts[Len(parts)]

\* the file name without its extension: what is left of the name when one of
\* the extensions the reader takes, in any case, is cut from its end
BaseNames(path) ==
    {SubSeq(FileName(path), 1, Len(FileName(path)) - Len(e)) :
        e \in {x \in Extensions : EndsWithAnyCase(FileName(path), x)}}

WriteOnce ==
    /\ writes \in {0, 1}
    /\ writes = 0 => fs = fs0
    /\ writes = 1 =>
        /\ pc = "done"
        /\ operation \in {"insert", "update"}
        /\ reads = 1 /\ df # NoTable /\ sql_query # None
        /\ fs.dirs = {(* "./storage" *) <<".","/","s","t","o","r","a","g","e">>}
        /\ \E f \in fs.files :
               /\ f.content = sql_query \o (* "\n\n" *) <<"\n","\n">>
               /\ \E b \in BaseNames(file_path) :
                      f.path = (* "./storage/" *) <<".","/","s","t","o","r","a","g","e","/">> \o b \o (* ".sql" *) <<".","s","q","l">>
               /\ \A g \in fs.files \ {f} : g \in fs0.files /\ g.path # f.path
               /\ \A g \in fs0.files : g \in fs.files \/ g.path = f.path

\* an update run on /w/b.XLSX wrote ./storage/b.sql
WriteOnceWitness ==
    /\ writes = 1
    /\ operation = "update"
    /\ lastInput = (* "id = 1" *) <<"i","d"," ","="," ","1">>
    /\ file_path = (* "/w/b.XLSX" *) <<"/","w","/","b",".","X","L","S","X">>
    /\ Len(df.rows) = 1
    /\ [path |-> (* "./storage/b.sql" *) <<".","/","s","t","o","r","a","g","e","/","b",".","s","q","l">>, content |-> sql_query \o (* "\n\n" *) <<"\n","\n">>] \in fs.files
    /\ fs0.dirs = {}

----------------------------------------------------------------------------
(* C9: the driver leaves the table-name prompt, and for create_view and     *)
(* drop_view the view-name prompt, only on an input that is not blank; a    *)
(* blank input is answered with a message and the same prompt; the name is  *)
(* the trimmed form of the first input that is not blank, and it is the     *)
(* name of the generated statement.                                         *)

AtViewName == pc = "dispatch" /\ operation \in {"create_view", "drop_view"}

NameOfStatement ==
    pc = "done" =>
        CASE operation = "select" ->
                 Contains(sql_query, (* " FROM " *) <<" ","F","R","O","M"," ">> \o table_name \o (* " WHERE " *) <<" ","W","H","E","R","E"," ">>)
          [] operation = "insert" ->
                 StartsWith(sql_query, (* "INSERT INTO " *) <<"I","N","S","E","R","T"," ","I","N","T","O"," ">> \o table_name \o (* " (" *) <<" ","(">>)
          [] operation = "update" ->
                 \A r \in 1..Len(Lines(sql_query)) :
                     StartsWith(Lines(sql_query)[r], (* "UPDATE " *) <<"U","P","D","A","T","E"," ">> \o table_name \o (* " SET " *) <<" ","S","E","T"," ">>)
          [] operation = "delete" ->
                 StartsWith(sql_query, (* "DELETE FROM " *) <<"D","E","L","E","T","E"," ","F","R","O","M"," ">> \o table_name \o (* " WHERE " *) <<" ","W","H","E","R","E"," ">>)
          [] operation = "create_table" ->
                 StartsWith(sql_query, (* "CREATE TABLE " *) <<"C","R","E","A","T","E"," ","T","A","B","L","E"," ">> \o table_name \o (* " (" *) <<" ","(">>)
          [] operation = "drop_table" ->
                 sql_query = (* "DROP TABLE IF EXISTS " *) <<"D","R","O","P"," ","T","A","B","L","E"," ","I","F"," ","E","X","I","S","T","S"," ">> \o table_name \o <<";">>
          [] operation = "alter_table" ->
                 StartsWith(sql_query, (* "ALTER TABLE " *) <<"A","L","T","E","R"," ","T","A","B","L","E"," ">> \o table_name \o <<" ">>)
          [] operation = "create_view" ->
                 StartsWith(sql_query, (* "CREATE VIEW " *) <<"C","R","E","A","T","E"," ","V","I","E","W"," ">> \o view_name \o (* " AS " *) <<" ","A","S"," ">>)
          [] operation = "drop_view" ->
                 sql_query = (* "DROP VIEW IF EXISTS " *) <<"D","R","O","P"," ","V","I","E","W"," ","I","F"," ","E","X","I","S","T","S"," ">> \o view_name \o <<";">>

NameCollection ==
    /\ [][pc = "table_name" =>
            IF Blank(lastInput')
            THEN /\ pc' = "table_name" /\ table_name' = None
                 /\ stdout'[1] = "Table name cannot be empty. Please enter a valid table name."
            ELSE /\ pc' = "dispatch" /\ table_name' = Trimmed(lastInput')]_vars
    /\ [][AtViewName =>
            IF Blank(lastInput')
            THEN /\ AtViewName' /\ view_name' = None
                 /\ stdout'[1] = "View name cannot be empty. Please enter a valid view name."
            ELSE /\ pc' = "view" /\ view_name' = Trimmed(lastInput')]_vars
    /\ [][(table_name # None => table_name' = table_name)
            /\ (view_name # None => view_name' = view_name)]_vars
    /\ [](pc \notin {"choice", "table_name"} => (table_name # None /\ ~Blank(table_name)))
    /\ [](pc \in {"view", "done"} /\ operation \in {"create_view", "drop_view"}
              => (view_name # None /\ ~Blank(view_name)))
    /\ []NameOfStatement

\* a create_view run ended, its names typed with whitespace around them
NameCollectionWitness ==
    /\ pc = "done"
    /\ operation = "create_view"
    /\ table_name = (* "tb" *) <<"t","b">>
    /\ view_name = <<"v">>
    /\ sql_query = (* "CREATE VIEW v AS SELECT id FROM t;" *) <<"C","R","E","A","T","E"," ","V","I","E","W"," ","v"," ","A","S"," ","S","E","L","E","C","T"," ","i","d"," ","F","R","O","M"," ","t",";">>

----------------------------------------------------------------------------
(* C10: for every cell of the table read, generate_insert_queries renders   *)
(* the cell as NULL exactly when generate_update_queries leaves its column  *)
(* out of that row's SET clause.                                            *)
SentinelUniform ==
    pc = "generate" =>
        \A r \in 1..Len(df.rows) : \A c \in 1..Len(df.columns) :
            LET one == [columns |-> <<df.columns[c]>>, rows |-> <<<<df.rows[r][c]>>>>]
            IN  /\ (insert_value(df.rows[r][c]) = (* "NULL" *) <<"N","U","L","L">>)
                       <=> (\A k \in 1..Len(set_columns(df, df.rows[r])) :
                                set_columns(df, df.rows[r])[k] # df.columns[c])
                /\ EndsWith(generate_insert_queries(one, <<"t">>), (* "(NULL);" *) <<"(","N","U","L","L",")",";">>)
                       <=> generate_update_queries(one, <<"t">>, <<"c">>)
                               = (* "UPDATE t SET  WHERE c;" *) <<"U","P","D","A","T","E"," ","t"," ","S","E","T"," "," ","W","H","E","R","E"," ","c",";">>

\* a table was read whose row holds a null word with whitespace around it
\* beside a value that is kept
SentinelUniformWitness ==
    /\ pc = "generate"
    /\ Len(df.columns) = 2 /\ Len(df.rows) = 1
    /\ df.rows[1] = <<StrCell((* " Null " *) <<" ","N","u","l","l"," ">>), StrCell((* " a " *) <<" ","a"," ">>)>>
====
